---- MODULE Spec2Model ----
(***************************************************************************)
(* Model of judge-core/src/monitor.rs: the batch driver run_judge and the  *)
(* interactive driver run_interact with its pipe pump pump_proxy_pipe.      *)
(* The parent (driver) is a sequential program followed by pc; the children *)
(* (contestant, interactor) are environment processes acting on the pipes.  *)
(* mode "process" is run_process and set_limit of judge-core/src/runner.rs. *)
(***************************************************************************)
EXTENDS Integers, Sequences, FiniteSets, TLC

\* ---------------------------------------------------------------- bounds
\* bytes each child may write to its stdout during one session
MaxOut == 3
\* capacity of a pipe, in bytes (the kernel's pipe buffer, scaled down)
PipeCap == 2
\* bytes one read() of pump_proxy_pipe returns at most (buf = [0; 1024], scaled down)
ChunkMax == 2

\* ---------------------------------------------------------------- constants
\* tag bytes of the exit notifiers
USER_EXIT_TAG == 41
INTERACTOR_EXIT_TAG == 42
\* soft CPU limit of the test configuration, in seconds
CPU_SOFT_LIMIT == 1

VARIABLES
    mode,        \* which driver runs: "judge" or "interact"
    pc,          \* position of the parent in the driver
    ret,         \* what the driver returned: "none" while running
    nonblock,    \* descriptors on which O_NONBLOCK was set
    epollSet,    \* descriptors registered with epoll_fd for EPOLLIN
    exitFd,      \* child -> tag installed by set_exit_fd (0: none)
    proc,        \* child -> "unspawned" | "running" | "exited"
    waits,       \* child -> number of waits completed on it
    produced,    \* child -> bytes it wrote to its stdout
    pipe,        \* proxy_read_* -> bytes in the pipe, oldest first
    delivered,   \* proxy_write_* -> every byte written to it, in order
    taken,       \* proxy_write_* -> bytes the reading child has consumed
    exitPipe,    \* child -> bytes readable on its exit-notifier pipe
    events,      \* the rest of the batch epoll_wait returned
    exited,      \* the local flag of the event loop
    pumpFrom,    \* descriptor pump_proxy_pipe reads from ("" outside it)
    buf,         \* the chunk pump_proxy_pipe has read
    transcript,  \* bytes in the transcript file
    outputFull,  \* the transcript file takes no more bytes (its device is full)
    userRaw,     \* RawRunResultInfo of the contestant (run_judge)
    checkerRaw,  \* RawRunResultInfo of the checker
    result,      \* the JudgeResultInfo run_judge returned
    openFds,     \* descriptors the driver opened that are open in the parent
    inChild,     \* a spawn returned None: control is in the forked child
    calls,       \* run_process: the calls made so far, in order
    failedCall   \* run_process: the call that failed ("" when none has)

vars == <<mode, pc, ret, nonblock, epollSet, exitFd, proc, waits, produced, pipe,
          delivered, taken, exitPipe, events, exited, pumpFrom, buf, transcript,
          outputFull, userRaw, checkerRaw, result, openFds, inChild, calls,
          failedCall>>

ioVars == <<produced, pipe, delivered, taken, exitPipe, transcript, outputFull>>
loopVars == <<events, exited, pumpFrom, buf>>
setupVars == <<nonblock, epollSet, exitFd>>
judgeVars == <<userRaw, checkerRaw, result>>
processVars == <<calls, failedCall>>

\* ---------------------------------------------------------------- names
Children == {"user", "interactor"}
Processes == Children \cup {"checker"}
ReadFds == {"proxy_read_user", "proxy_read_interactor"}
WriteFds == {"proxy_write_user", "proxy_write_interactor"}
ExitFds == {"user_exit_read", "interactor_exit_read"}
\* the two ends of each pipe of run_interact, in the order the pipes are created
ProxyPipes ==
    << {"proxy_read_user", "user_write_proxy"},
       {"proxy_read_interactor", "interactor_write_proxy"},
       {"user_read_proxy", "proxy_write_user"},
       {"interactor_read_proxy", "proxy_write_interactor"} >>
ExitPipes ==
    << {"user_exit_read", "user_exit_write"},
       {"interactor_exit_read", "interactor_exit_write"} >>
\* descriptors held by std::fs::File values, closed when the value is dropped
Files == {"input_file", "output_file"}
\* the descriptors of the first k pipes of a sequence of pipes
EndsOf(pipes, k) == UNION {pipes[i] : i \in 1..k}

\* the child whose stdout feeds a proxy read end
SourceOf(fd) == IF fd = "proxy_read_user" THEN "user" ELSE "interactor"
\* the proxy read end fed by a child's stdout
StdoutPipe(c) == IF c = "user" THEN "proxy_read_user" ELSE "proxy_read_interactor"
\* the proxy write end feeding a child's stdin
StdinPipe(c) == IF c = "user" THEN "proxy_write_user" ELSE "proxy_write_interactor"
\* the child whose termination an exit-notifier read end reports
ExitOf(fd) == IF fd = "user_exit_read" THEN "user" ELSE "interactor"

Min(a, b) == IF a < b THEN a ELSE b

\* every ordering of a finite set, as sequences
Perms(S) == {s \in [1..Cardinality(S) -> S] : \A i, j \in 1..Cardinality(S) : s[i] = s[j] => i = j}

NoRaw == [exit_status |-> 0, signal |-> "unset", time |-> 0, memory |-> 0]
NoResult == [verdict |-> "unset", time |-> 0, memory |-> 0, exit_status |-> 0,
             checker_exit_status |-> 0]

Signals == {"none", "SIGXCPU", "SIGSEGV", "SIGKILL"}
\* what a wait can report for a terminated child
RawResults == [exit_status : {0, 1}, signal : Signals, time : 0..2, memory : 1..2]

Init ==
    /\ mode \in {"judge", "interact", "process"}
    /\ pc = CASE mode = "judge" -> "j_open_input"
              [] mode = "interact" -> "create_pipes"
              [] mode = "process" -> "set_limit"
    /\ ret = "none"
    /\ nonblock = {}
    /\ epollSet = {}
    /\ exitFd = [c \in Children |-> 0]
    /\ proc = [p \in Processes |-> "unspawned"]
    /\ waits = [p \in Processes |-> 0]
    /\ produced = [c \in Children |-> 0]
    /\ pipe = [fd \in ReadFds |-> <<>>]
    /\ delivered = [fd \in WriteFds |-> <<>>]
    /\ taken = [fd \in WriteFds |-> 0]
    /\ exitPipe = [c \in Children |-> 0]
    /\ events = <<>>
    /\ exited = FALSE
    /\ pumpFrom = ""
    /\ buf = <<>>
    /\ transcript = <<>>
    /\ outputFull = FALSE
    /\ userRaw = NoRaw
    /\ checkerRaw = NoRaw
    /\ result = NoResult
    /\ openFds = {}
    /\ inChild = FALSE
    /\ calls = <<>>
    /\ failedCall = ""

\* the driver leaves the function with r; the File values it holds are dropped,
\* which closes them, and nothing else is closed
Return(r) ==
    /\ pc' = "returned"
    /\ ret' = r
    /\ openFds' = openFds \ Files

\* a `?` on a failed call: the driver returns Err
Fail == Return("Err")

\* ---------------------------------------------------------------- verdicts
\* user CPU time of a raw result, in milliseconds
get_run_time(raw) == raw.time * 1000
\* peak resident set of a raw result, in kilobytes
get_max_mem(raw) == raw.memory

\* the verdict of a contestant's raw result; "None" defers to the checker
check_user_result(raw) ==
    IF raw.signal = "SIGXCPU" \/ raw.time >= CPU_SOFT_LIMIT THEN "TimeLimitExceeded"
    ELSE IF raw.signal /= "none" THEN "RuntimeError"
    ELSE IF raw.exit_status /= 0 THEN "RuntimeError"
    ELSE "None"

\* the verdict of the checker's raw result
check_checker_result(raw) ==
    IF raw.signal /= "none" THEN "SystemError"
    ELSE IF raw.exit_status = 0 THEN "Accepted"
    ELSE "WrongAnswer"

\* mutant: only a non-zero exit status ends the run before the checker
returns_early_exit_only(raw) == raw.exit_status /= 0 /\ check_user_result(raw) /= "None"
\* `if let Some(verdict) = check_user_result(&user_result)`
returns_early(raw) == check_user_result(raw) /= "None"

\* mutant: the early result carries the contestant's exit status as the checker's
user_verdict_result_copy(raw) ==
    [verdict |-> check_user_result(raw), time |-> get_run_time(raw),
     memory |-> get_max_mem(raw), exit_status |-> raw.exit_status,
     checker_exit_status |-> raw.exit_status]
\* the JudgeResultInfo returned without running the checker
user_verdict_result(raw) ==
    [verdict |-> check_user_result(raw), time |-> get_run_time(raw),
     memory |-> get_max_mem(raw), exit_status |-> raw.exit_status,
     checker_exit_status |-> 0]

\* mutant: the checker's verdict is not consulted
checked_result_accepting(uraw, craw) ==
    [verdict |-> "Accepted", time |-> get_run_time(uraw),
     memory |-> get_max_mem(uraw), exit_status |-> uraw.exit_status,
     checker_exit_status |-> craw.exit_status]
\* mutant: time and memory are taken from the checker's run
checked_result_of_checker(uraw, craw) ==
    [verdict |-> check_checker_result(craw), time |-> get_run_time(craw),
     memory |-> get_max_mem(craw), exit_status |-> uraw.exit_status,
     checker_exit_status |-> craw.exit_status]
\* the JudgeResultInfo returned after the checker has run
checked_result(uraw, craw) ==
    [verdict |-> check_checker_result(craw), time |-> get_run_time(uraw),
     memory |-> get_max_mem(uraw), exit_status |-> uraw.exit_status,
     checker_exit_status |-> craw.exit_status]

\* ---------------------------------------------------------------- run_judge
\* File::open(&runner_config.input_file_path)?
JudgeOpenInput ==
    /\ pc = "j_open_input"
    /\ \E ok \in BOOLEAN :
        IF ok THEN /\ pc' = "j_open_output"
                   /\ ret' = ret
                   /\ openFds' = openFds \cup {"input_file"}
        ELSE Fail
    /\ UNCHANGED <<mode, inChild, processVars, proc, waits, setupVars, ioVars, loopVars, judgeVars>>

\* File::options().write(true).truncate(true).open(..).unwrap()
JudgeOpenOutput ==
    /\ pc = "j_open_output"
    /\ \E ok \in BOOLEAN :
        IF ok THEN /\ pc' = "j_spawn_user"
                   /\ ret' = ret
                   /\ openFds' = openFds \cup {"output_file"}
        ELSE Return("panic")
    /\ UNCHANGED <<mode, inChild, processVars, proc, waits, setupVars, ioVars, loopVars, judgeVars>>

\* user_process.spawn_with_io(..)?; None is the forked child's return
JudgeSpawnUser ==
    /\ pc = "j_spawn_user"
    /\ \E outcome \in {"some", "none", "err"} :
        CASE outcome = "some" ->
                /\ proc' = [proc EXCEPT !["user"] = "running"]
                /\ pc' = "j_wait_user"
                /\ ret' = ret
                /\ UNCHANGED <<openFds, inChild>>
          [] outcome = "none" ->
                /\ Return("OkNone")
                /\ inChild' = TRUE
                /\ proc' = proc
          [] outcome = "err" -> Fail /\ UNCHANGED <<proc, inChild>>
    /\ UNCHANGED <<mode, processVars, waits, setupVars, ioVars, loopVars, judgeVars>>

\* user_process.wait()?
JudgeWaitUser ==
    /\ pc = "j_wait_user"
    /\ \/ \E raw \in RawResults :
            /\ userRaw' = raw
            /\ proc' = [proc EXCEPT !["user"] = "exited"]
            /\ waits' = [waits EXCEPT !["user"] = @ + 1]
            /\ pc' = "j_classify"
            /\ ret' = ret /\ openFds' = openFds
       \/ Fail /\ UNCHANGED <<userRaw, proc, waits>>
    /\ UNCHANGED <<mode, inChild, processVars, setupVars, ioVars, loopVars, checkerRaw, result>>

\* get_run_time, get_max_mem, check_user_result and the early return
JudgeClassifyUser ==
    /\ pc = "j_classify"
    /\ IF returns_early(userRaw)
       THEN /\ result' = user_verdict_result(userRaw)
            /\ Return("OkSome")
       ELSE /\ pc' = "j_spawn_checker"
            /\ UNCHANGED <<result, ret, openFds>>
    /\ UNCHANGED <<mode, inChild, processVars, proc, waits, setupVars, ioVars, loopVars, userRaw, checkerRaw>>

\* SandBox::new(false)?; checker_process.spawn(..)?
JudgeSpawnChecker ==
    /\ pc = "j_spawn_checker"
    /\ \E outcome \in {"some", "none", "err"} :
        CASE outcome = "some" ->
                /\ proc' = [proc EXCEPT !["checker"] = "running"]
                /\ pc' = "j_wait_checker"
                /\ ret' = ret
                /\ UNCHANGED <<openFds, inChild>>
          [] outcome = "none" ->
                /\ Return("OkNone")
                /\ inChild' = TRUE
                /\ proc' = proc
          [] outcome = "err" -> Fail /\ UNCHANGED <<proc, inChild>>
    /\ UNCHANGED <<mode, processVars, waits, setupVars, ioVars, loopVars, judgeVars>>

\* checker_process.wait()?; check_checker_result; Ok(Some(JudgeResultInfo {..}))
JudgeWaitChecker ==
    /\ pc = "j_wait_checker"
    /\ \/ \E raw \in RawResults :
            /\ checkerRaw' = raw
            /\ proc' = [proc EXCEPT !["checker"] = "exited"]
            /\ waits' = [waits EXCEPT !["checker"] = @ + 1]
            /\ result' = checked_result(userRaw, raw)
            /\ Return("OkSome")
       \/ Fail /\ UNCHANGED <<checkerRaw, proc, waits, result>>
    /\ UNCHANGED <<mode, inChild, processVars, setupVars, ioVars, loopVars, userRaw>>

run_judge ==
    \/ JudgeOpenInput
    \/ JudgeOpenOutput
    \/ JudgeSpawnUser
    \/ JudgeWaitUser
    \/ JudgeClassifyUser
    \/ JudgeSpawnChecker
    \/ JudgeWaitChecker


\* ---------------------------------------------------------------- pipes
\* bytes of a proxy write pipe the reading child has not consumed yet
Fill(fd) == Len(delivered[fd]) - taken[fd]

\* a registered descriptor is reported by epoll_wait when it has data to read
Readable(fd) ==
    IF fd \in ReadFds THEN pipe[fd] /= <<>> ELSE exitPipe[ExitOf(fd)] > 0

\* the descriptors run_interact passes to set_non_blocking
non_blocking_fds ==
    {"user_write_proxy", "interactor_write_proxy", "proxy_read_user", "proxy_read_interactor"}

\* mutant: each direction is written back to its own producer
peer_of_self(from) ==
    IF from = "proxy_read_user" THEN "proxy_write_user" ELSE "proxy_write_interactor"
\* the `to` argument the event loop pairs with each `from`
peer_of(from) ==
    IF from = "proxy_read_user" THEN "proxy_write_interactor" ELSE "proxy_write_user"

\* read(from, &mut buf): the oldest bytes of the pipe, at most the buffer's size
read_chunk(p) == SubSeq(p, 1, Min(Len(p), ChunkMax))

\* mutant: the file is written at offset 0
write_file_at_start(file, chunk, n) == SubSeq(chunk, 1, n) \o file
\* write(output, &buf[..nread]) accepting n bytes: they go to the end of the file
write_file(file, chunk, n) == file \o SubSeq(chunk, 1, n)

\* ---------------------------------------------------------------- run_interact: setup
InteractUnchangedBySetup == UNCHANGED <<mode, inChild, processVars, proc, waits, ioVars, loopVars, judgeVars>>

\* the four create_pipe()? calls of the proxy pipes
CreateProxyPipes ==
    /\ pc = "create_pipes"
    /\ \/ /\ pc' = "set_non_blocking"
          /\ ret' = ret
          /\ openFds' = openFds \cup EndsOf(ProxyPipes, Len(ProxyPipes))
       \/ \E k \in 0..(Len(ProxyPipes) - 1) :
             /\ pc' = "returned"
             /\ ret' = "Err"
             /\ openFds' = openFds \cup EndsOf(ProxyPipes, k)
    /\ UNCHANGED setupVars
    /\ InteractUnchangedBySetup

\* the four set_non_blocking(..)? calls
SetNonBlocking ==
    /\ pc = "set_non_blocking"
    /\ \E ok \in BOOLEAN :
        IF ok THEN /\ nonblock' = non_blocking_fds
                   /\ pc' = "epoll_create"
                   /\ ret' = ret /\ openFds' = openFds
        ELSE Fail /\ nonblock' = nonblock
    /\ UNCHANGED <<epollSet, exitFd>>
    /\ InteractUnchangedBySetup

\* epoll_create1(EPOLL_CLOEXEC)?
EpollCreate ==
    /\ pc = "epoll_create"
    /\ \E ok \in BOOLEAN :
        IF ok THEN /\ pc' = "add_data_fds"
                   /\ ret' = ret
                   /\ openFds' = openFds \cup {"epoll_fd"}
        ELSE Fail
    /\ UNCHANGED setupVars
    /\ InteractUnchangedBySetup

\* add_epoll_fd for proxy_read_user and proxy_read_interactor
AddDataFds ==
    /\ pc = "add_data_fds"
    /\ \E ok \in BOOLEAN :
        IF ok THEN /\ epollSet' = epollSet \cup ReadFds
                   /\ pc' = "create_exit_pipes"
                   /\ ret' = ret /\ openFds' = openFds
        ELSE Fail /\ epollSet' = epollSet
    /\ UNCHANGED <<nonblock, exitFd>>
    /\ InteractUnchangedBySetup

\* the two create_pipe()? calls of the exit-notifier pipes
CreateExitPipes ==
    /\ pc = "create_exit_pipes"
    /\ \/ /\ pc' = "add_exit_fds"
          /\ ret' = ret
          /\ openFds' = openFds \cup EndsOf(ExitPipes, Len(ExitPipes))
       \/ \E k \in 0..(Len(ExitPipes) - 1) :
             /\ pc' = "returned"
             /\ ret' = "Err"
             /\ openFds' = openFds \cup EndsOf(ExitPipes, k)
    /\ UNCHANGED setupVars
    /\ InteractUnchangedBySetup

\* add_epoll_fd for user_exit_read and interactor_exit_read
AddExitFds ==
    /\ pc = "add_exit_fds"
    /\ \E ok \in BOOLEAN :
        IF ok THEN /\ epollSet' = epollSet \cup ExitFds
                   /\ pc' = "set_exit_fds"
                   /\ ret' = ret /\ openFds' = openFds
        ELSE Fail /\ epollSet' = epollSet
    /\ UNCHANGED <<nonblock, exitFd>>
    /\ InteractUnchangedBySetup

\* mutant: the exit notifiers are not installed
SetExitFds_skipped ==
    /\ pc = "set_exit_fds"
    /\ pc' = "open_output"
    /\ UNCHANGED <<ret, openFds, nonblock, epollSet, exitFd>>
    /\ InteractUnchangedBySetup

\* user_process.set_exit_fd(.., 41u8); interact_process.set_exit_fd(.., 42u8)
SetExitFds ==
    /\ pc = "set_exit_fds"
    /\ exitFd' = [c \in Children |->
                    IF c = "user" THEN USER_EXIT_TAG ELSE INTERACTOR_EXIT_TAG]
    /\ pc' = "open_output"
    /\ UNCHANGED <<ret, openFds, nonblock, epollSet>>
    /\ InteractUnchangedBySetup

\* File::options().write(true).truncate(true).open(output_path)?
OpenOutput ==
    /\ pc = "open_output"
    /\ \E ok \in BOOLEAN :
        IF ok THEN /\ pc' = "spawn_user"
                   /\ ret' = ret
                   /\ openFds' = openFds \cup {"output_file"}
        ELSE Fail
    /\ UNCHANGED setupVars
    /\ InteractUnchangedBySetup

\* mutant: the None of the forked child is not checked and the driver goes on
SpawnChild_unchecked(c, next) ==
    /\ \E outcome \in {"some", "none", "err"} :
        CASE outcome = "some" ->
                /\ proc' = [proc EXCEPT ![c] = "running"]
                /\ pc' = next
                /\ ret' = ret
                /\ UNCHANGED <<openFds, inChild>>
          [] outcome = "none" ->
                /\ pc' = next
                /\ inChild' = TRUE
                /\ UNCHANGED <<ret, openFds, proc>>
          [] outcome = "err" -> Fail /\ UNCHANGED <<proc, inChild>>
    /\ UNCHANGED <<mode, processVars, waits, setupVars, ioVars, loopVars, judgeVars>>

\* spawn_with_io of one child, then `if spawn.is_none() { return Ok(None) }`
SpawnChild(c, next) ==
    /\ \E outcome \in {"some", "none", "err"} :
        CASE outcome = "some" ->
                /\ proc' = [proc EXCEPT ![c] = "running"]
                /\ pc' = next
                /\ ret' = ret
                /\ UNCHANGED <<openFds, inChild>>
          [] outcome = "none" ->
                /\ Return("OkNone")
                /\ inChild' = TRUE
                /\ proc' = proc
          [] outcome = "err" -> Fail /\ UNCHANGED <<proc, inChild>>
    /\ UNCHANGED <<mode, processVars, waits, setupVars, ioVars, loopVars, judgeVars>>

\* user_process.spawn_with_io(.., user_read_proxy, user_write_proxy)?
SpawnUser ==
    /\ pc = "spawn_user"
    /\ SpawnChild("user", "spawn_interactor")

\* interact_process.spawn_with_io(.., interactor_read_proxy, interactor_write_proxy)?
SpawnInteractor ==
    /\ pc = "spawn_interactor"
    /\ SpawnChild("interactor", "epoll_wait")


\* ---------------------------------------------------------------- run_interact: event loop
\* epoll_wait(epoll_fd, &mut events, -1)?: blocks until a registered descriptor is
\* readable, then reports all that are, in any order; `let mut exited = false`
EpollWait ==
    /\ pc = "epoll_wait"
    /\ \/ /\ \E batch \in Perms({fd \in epollSet : Readable(fd)}) :
                /\ batch /= <<>>
                /\ events' = batch
          /\ exited' = FALSE
          /\ pc' = "for_events"
          /\ ret' = ret /\ openFds' = openFds
       \/ Fail /\ UNCHANGED <<events, exited>>
    /\ UNCHANGED <<mode, inChild, processVars, proc, waits, setupVars, ioVars, pumpFrom, buf, judgeVars>>

\* mutant: any event ends the loop
is_exit_event_any(fd) == fd \in ExitFds \cup ReadFds
\* `fd == user_exit_read || fd == interactor_exit_read`
is_exit_event(fd) == fd \in ExitFds

\* one iteration of `for event in events.iter().take(num_events)`; on `break` the
\* events not yet visited stay in the batch
ForEvents ==
    /\ pc = "for_events"
    /\ IF events = <<>>
       THEN /\ pc' = "after_for"
            /\ UNCHANGED <<events, exited, pumpFrom>>
       ELSE IF is_exit_event(Head(events))
       THEN /\ exited' = TRUE
            /\ pc' = "after_for"
            /\ UNCHANGED <<events, pumpFrom>>
       ELSE /\ pumpFrom' = Head(events)
            /\ events' = Tail(events)
            /\ pc' = "pump_read"
            /\ exited' = exited
    /\ UNCHANGED <<mode, inChild, processVars, ret, openFds, proc, waits, setupVars, ioVars, buf,
                   judgeVars>>

\* `if exited { break; }`; either way the batch is over
AfterFor ==
    /\ pc = "after_for"
    /\ pc' = IF exited THEN "spawn_checker" ELSE "epoll_wait"
    /\ events' = <<>>
    /\ UNCHANGED <<mode, inChild, processVars, ret, openFds, proc, waits, setupVars, ioVars,
                   exited, pumpFrom, buf, judgeVars>>

\* read(from, &mut buf) in pump_proxy_pipe: a chunk, EAGAIN (return), or another
\* error (panic); on a blocking descriptor an empty pipe blocks the read
PumpRead ==
    /\ pc = "pump_read"
    /\ \/ /\ pipe[pumpFrom] /= <<>>
          /\ buf' = read_chunk(pipe[pumpFrom])
          /\ pipe' = [pipe EXCEPT ![pumpFrom] = SubSeq(@, Len(buf') + 1, Len(@))]
          /\ pc' = "pump_write_peer"
          /\ UNCHANGED <<pumpFrom, ret, openFds>>
       \/ /\ pipe[pumpFrom] = <<>>
          /\ pumpFrom \in nonblock
          /\ pumpFrom' = ""
          /\ pc' = "for_events"
          /\ UNCHANGED <<buf, pipe, ret, openFds>>
       \/ /\ Return("panic")
          /\ UNCHANGED <<buf, pipe, pumpFrom>>
    /\ UNCHANGED <<mode, inChild, processVars, proc, waits, setupVars, produced, delivered, taken, exitPipe,
                   transcript, outputFull, events, exited, judgeVars>>

\* write(to, &buf[..nread]).ok(): the chunk is at most PIPE_BUF bytes, so it goes in
\* whole or not at all; a full pipe blocks a blocking descriptor and gives EAGAIN
\* (the chunk is dropped) on a non-blocking one
PumpWritePeer ==
    /\ pc = "pump_write_peer"
    /\ LET to == peer_of(pumpFrom) IN
        \/ /\ Fill(to) + Len(buf) <= PipeCap
           /\ delivered' = [delivered EXCEPT ![to] = @ \o buf]
        \/ /\ Fill(to) + Len(buf) > PipeCap
           /\ to \in nonblock
           /\ delivered' = delivered
    /\ pc' = "pump_write_output"
    /\ UNCHANGED <<mode, inChild, processVars, ret, openFds, proc, waits, setupVars, produced,
                   pipe, taken, exitPipe,
                   transcript, outputFull, loopVars, judgeVars>>

\* write(output, &buf[..nread]).ok(): the file takes n bytes of the chunk; a write
\* comes back short or failed when the device fills up, and it stays full
PumpWriteOutput ==
    /\ pc = "pump_write_output"
    /\ \E n \in 0..Len(buf) :
        /\ outputFull => n = 0
        /\ transcript' = write_file(transcript, buf, n)
        /\ outputFull' = (outputFull \/ n < Len(buf))
    /\ buf' = <<>>
    /\ pc' = "pump_read"
    /\ UNCHANGED <<mode, inChild, processVars, ret, openFds, proc, waits, setupVars, produced,
                   pipe, delivered, taken,
                   exitPipe, events, exited, pumpFrom, judgeVars>>

\* the proxy is inside a write on a full pipe that will not return
BlockedInWrite ==
    /\ pc = "pump_write_peer"
    /\ Fill(peer_of(pumpFrom)) + Len(buf) > PipeCap
    /\ peer_of(pumpFrom) \notin nonblock

\* ---------------------------------------------------------------- run_interact: checker
\* what the checker's wait reports in an interactive session
InteractRawResults == {r \in RawResults : r.time = 0 /\ r.memory = 1 /\ r.signal = "none"}

\* SandBox::new(false)?; checker_process.spawn(..)?
SpawnChecker ==
    /\ pc = "spawn_checker"
    /\ SpawnChild("checker", "wait_checker")

\* checker_process.wait()?; Ok(Some(checker_result))
WaitChecker ==
    /\ pc = "wait_checker"
    /\ \/ \E raw \in InteractRawResults :
            /\ checkerRaw' = raw
            /\ proc' = [proc EXCEPT !["checker"] = "exited"]
            /\ waits' = [waits EXCEPT !["checker"] = @ + 1]
            /\ Return("OkSome")
       \/ Fail /\ UNCHANGED <<checkerRaw, proc, waits>>
    /\ UNCHANGED <<mode, inChild, processVars, setupVars, ioVars, loopVars, userRaw, result>>

run_interact ==
    \/ CreateProxyPipes
    \/ SetNonBlocking
    \/ EpollCreate
    \/ AddDataFds
    \/ CreateExitPipes
    \/ AddExitFds
    \/ SetExitFds
    \/ OpenOutput
    \/ SpawnUser
    \/ SpawnInteractor
    \/ EpollWait
    \/ ForEvents
    \/ AfterFor
    \/ PumpRead
    \/ PumpWritePeer
    \/ PumpWriteOutput
    \/ SpawnChecker
    \/ WaitChecker

\* ---------------------------------------------------------------- run_process
\* mutant: the address-space limit is installed before the stack limit
rlimit_order_as_first ==
    <<"RLIMIT_AS", "RLIMIT_STACK", "RLIMIT_CPU", "RLIMIT_NPROC", "RLIMIT_FSIZE">>
\* the setrlimit calls of set_limit, in program order
rlimit_order ==
    <<"RLIMIT_STACK", "RLIMIT_AS", "RLIMIT_CPU", "RLIMIT_NPROC", "RLIMIT_FSIZE">>

\* the calls of run_process after set_limit, in program order
process_steps ==
    <<"open_input", "open_output", "dup2_stdin", "dup2_stdout", "execve">>

ProcessUnchanged ==
    UNCHANGED <<mode, inChild, proc, waits, setupVars, ioVars, loopVars, judgeVars>>

\* one setrlimit(..)? of set_limit; a failure returns Err, which
\* `set_limit().unwrap()` in run_process turns into a panic
SetLimit ==
    /\ pc = "set_limit"
    /\ LET name == rlimit_order[Len(calls) + 1] IN
        /\ calls' = Append(calls, name)
        /\ \E ok \in BOOLEAN :
            IF ok
            THEN /\ pc' = IF Len(calls') = Len(rlimit_order) THEN "run_process" ELSE pc
                 /\ UNCHANGED <<ret, openFds, failedCall>>
            ELSE /\ failedCall' = name
                 /\ Return("panic")
    /\ ProcessUnchanged

\* one of File::open(..).unwrap(), File::options()..open(..).unwrap(),
\* dup2(..).unwrap() twice and execve(..).unwrap(); a successful execve replaces
\* the process image
RunProcessStep ==
    /\ pc = "run_process"
    /\ LET name == process_steps[Len(calls) - Len(rlimit_order) + 1] IN
        /\ calls' = Append(calls, name)
        /\ \E ok \in BOOLEAN :
            IF ok
            THEN /\ failedCall' = failedCall
                 /\ IF name = "execve" THEN Return("exec")
                    ELSE UNCHANGED <<pc, ret, openFds>>
            ELSE /\ failedCall' = name
                 /\ Return("panic")
    /\ ProcessUnchanged

run_process == SetLimit \/ RunProcessStep


\* ---------------------------------------------------------------- the children
\* a child of the interactive session that the driver still observes
Alive(c) == mode = "interact" /\ pc /= "returned" /\ proc[c] = "running"

\* the child writes one byte to its stdout, when the pipe has room for it
ChildWrite(c) ==
    /\ Alive(c)
    /\ produced[c] < MaxOut
    /\ Len(pipe[StdoutPipe(c)]) < PipeCap
    /\ produced' = [produced EXCEPT ![c] = @ + 1]
    /\ pipe' = [pipe EXCEPT ![StdoutPipe(c)] = Append(@, <<c, produced[c] + 1>>)]
    /\ UNCHANGED <<mode, inChild, processVars, pc, ret, openFds, proc, waits, setupVars, delivered, taken, exitPipe,
                   transcript, outputFull, loopVars, judgeVars>>

\* the child reads some of the bytes waiting on its stdin
ChildRead(c) ==
    /\ Alive(c)
    /\ \E k \in 1..Fill(StdinPipe(c)) :
        taken' = [taken EXCEPT ![StdinPipe(c)] = @ + k]
    /\ UNCHANGED <<mode, inChild, processVars, pc, ret, openFds, proc, waits, setupVars, produced, pipe, delivered,
                   exitPipe, transcript, outputFull, loopVars, judgeVars>>

\* the child terminates: its listener reaps it and writes the tag byte to the
\* exit-notifier pipe installed by set_exit_fd
ChildExit(c) ==
    /\ Alive(c)
    /\ proc' = [proc EXCEPT ![c] = "exited"]
    /\ waits' = [waits EXCEPT ![c] = @ + 1]
    /\ exitPipe' = [exitPipe EXCEPT ![c] = IF exitFd[c] /= 0 THEN @ + 1 ELSE @]
    /\ UNCHANGED <<mode, inChild, processVars, pc, ret, openFds, setupVars, produced, pipe, delivered, taken,
                   transcript, outputFull, loopVars, judgeVars>>

Environment ==
    \E c \in Children : ChildWrite(c) \/ ChildRead(c) \/ ChildExit(c)

Next == run_judge \/ run_interact \/ run_process \/ Environment

Spec == Init /\ [][Next]_vars


\* ---------------------------------------------------------------- properties
\* the event loop of an interactive session has been left through `break`
LoopExited ==
    /\ mode = "interact"
    /\ pc \in {"spawn_checker", "wait_checker"} \/ proc["checker"] /= "unspawned"

\* s holds bytes of the one source src, each produced, none repeated, in the order
\* src produced them
InSourceOrder(s, src) ==
    \A i \in 1..Len(s) :
        /\ s[i][1] = src
        /\ s[i][2] \in 1..produced[src]
        /\ \A j \in 1..Len(s) : i < j => s[i][2] < s[j][2]

\* C1: once the event loop has exited, the transcript holds as many bytes as the
\* contestant and the interactor wrote to their standard outputs.
C1_LosslessTranscript ==
    LoopExited => Len(transcript) = produced["user"] + produced["interactor"]

\* C2: once a child has terminated the driver goes on to the checker whatever the
\* other child does: it is never inside a write on a full pipe, where it cannot see
\* the exit notifier and only a read by the other child could release it.
C2_NeverHangs ==
    (\E c \in Children : proc[c] = "exited") => ~BlockedInWrite

\* C3: no write the proxy performs on a proxy pipe blocks: the proxy is never
\* inside a write on a full pipe waiting for room.
C3_ProxyWriteNeverBlocks ==
    mode = "interact" => ~BlockedInWrite

\* C4: when the event loop starts, the four descriptors the proxy reads from or
\* monitors and the two it writes to are all in non-blocking mode.
C4_AllSixNonBlocking ==
    pc = "epoll_wait" => (ReadFds \cup ExitFds \cup WriteFds) \subseteq nonblock

\* C5: every byte written to proxy_write_interactor was read from proxy_read_user
\* and every byte written to proxy_write_user from proxy_read_interactor, and each
\* direction carries its bytes in the order the source produced them, none twice.
C5_OrderedDelivery ==
    /\ InSourceOrder(delivered["proxy_write_interactor"], "user")
    /\ InSourceOrder(delivered["proxy_write_user"], "interactor")

\* C5 witness: both directions have carried several bytes, in several chunks
C5_Witness ==
    /\ Len(delivered["proxy_write_interactor"]) = MaxOut
    /\ Len(delivered["proxy_write_user"]) >= 2

\* the bytes of s that come from src, in the order s holds them
RECURSIVE Restrict(_, _)
Restrict(s, src) ==
    IF s = <<>> THEN <<>>
    ELSE IF Head(s)[1] = src THEN <<Head(s)>> \o Restrict(Tail(s), src)
    ELSE Restrict(Tail(s), src)

\* C6: in every state the transcript's bytes of one source are in the order that
\* source produced them, none twice, however the two directions interleave.
C6_TranscriptSourceOrder ==
    \A src \in Children : InSourceOrder(Restrict(transcript, src), src)

\* C6 witness: the two directions interleave in the transcript
C6_Witness ==
    /\ Len(transcript) >= 4
    /\ transcript[1][1] = "user"
    /\ transcript[2][1] = "interactor"
    /\ transcript[3][1] = "user"
    /\ Len(Restrict(transcript, "interactor")) >= 2

\* run_judge has classified the contestant's result
JudgeClassified ==
    /\ mode = "judge"
    /\ waits["user"] = 1
    /\ pc /= "j_classify"

\* C7: when the contestant's classification is not Accepted, run_judge returns that
\* verdict at once with checker_exit_status 0 and the contestant's time, memory and
\* exit status, and never spawns the checker.
C7_EarlyVerdict ==
    (JudgeClassified /\ check_user_result(userRaw) /= "None") =>
        /\ ret = "OkSome"
        /\ result.verdict = check_user_result(userRaw)
        /\ result.checker_exit_status = 0
        /\ result.time = get_run_time(userRaw)
        /\ result.memory = get_max_mem(userRaw)
        /\ result.exit_status = userRaw.exit_status
        /\ proc["checker"] = "unspawned"
        /\ waits["checker"] = 0

\* C7 witness: a contestant that exited non-zero was returned as RuntimeError
C7_Witness ==
    /\ mode = "judge"
    /\ ret = "OkSome"
    /\ result.verdict = "RuntimeError"
    /\ userRaw.exit_status = 1
    /\ userRaw.signal = "none"
    /\ result.time = 0
    /\ result.memory = 2

\* C8: run_judge returns Accepted only when the contestant exited with status 0 and
\* no signal and the checker was spawned, waited for and exited with status 0; a
\* non-zero checker exit gives WrongAnswer, a checker killed by a signal SystemError.
C8_AcceptedOnlyViaChecker ==
    (mode = "judge" /\ ret = "OkSome") =>
        /\ result.verdict = "Accepted" =>
              /\ userRaw.exit_status = 0
              /\ userRaw.signal = "none"
              /\ proc["checker"] = "exited"
              /\ waits["checker"] = 1
              /\ checkerRaw.exit_status = 0
              /\ checkerRaw.signal = "none"
        /\ (proc["checker"] = "exited" /\ checkerRaw.signal /= "none") =>
              result.verdict = "SystemError"
        /\ (proc["checker"] = "exited" /\ checkerRaw.signal = "none"
                /\ checkerRaw.exit_status /= 0) =>
              result.verdict = "WrongAnswer"

\* C8 witness: an Accepted run
C8_Witness ==
    /\ mode = "judge"
    /\ ret = "OkSome"
    /\ result.verdict = "Accepted"
    /\ waits["checker"] = 1

\* C9: a contestant that exceeded its CPU limit (SIGXCPU, or user CPU time at or
\* above the soft limit) gets TimeLimitExceeded whatever its exit status, and the
\* checker is not run.
C9_TimeLimitExceeded ==
    (JudgeClassified /\ (userRaw.signal = "SIGXCPU" \/ userRaw.time >= CPU_SOFT_LIMIT)) =>
        /\ ret = "OkSome"
        /\ result.verdict = "TimeLimitExceeded"
        /\ proc["checker"] = "unspawned"

\* C9 witness: TimeLimitExceeded for a contestant whose exit status is 0
C9_Witness ==
    /\ mode = "judge"
    /\ ret = "OkSome"
    /\ result.verdict = "TimeLimitExceeded"
    /\ userRaw.signal = "SIGXCPU"
    /\ userRaw.exit_status = 0
    /\ userRaw.time = 0

\* C10: when a driver returns Ok(Some(..)), exactly one wait has completed on every
\* child it spawned.
C10_ExactlyOneWait ==
    ret = "OkSome" => \A p \in Processes : proc[p] /= "unspawned" => waits[p] = 1


\* the driver has returned in the parent process
ReturnedInParent ==
    /\ mode \in {"judge", "interact"}
    /\ pc = "returned"
    /\ ~inChild

\* C11: when run_judge or run_interact returns in the parent, on the success path
\* and on every error path, no descriptor the driver opened is still open.
C11_NoDescriptorLeftOpen ==
    ReturnedInParent => openFds = {}

\* C12: the event loop is left, and the checker spawned, only after an exit
\* notifier was reported ready, which takes a terminated child: while the contestant
\* and the interactor are both running the loop does not exit.
C12_ExitOnlyAfterNotifier ==
    (mode = "interact" /\ (exited \/ LoopExited)) =>
        \E c \in Children : proc[c] = "exited" /\ exitPipe[c] > 0

\* C12 witness: the loop was left after data traffic, with one child still running
C12_Witness ==
    /\ LoopExited
    /\ proc["checker"] = "running"
    /\ proc["user"] = "running"
    /\ proc["interactor"] = "exited"
    /\ Len(transcript) >= 2
    /\ delivered["proxy_write_user"] /= <<>>

\* C13: a failed call in the parent during run_judge or run_interact is returned
\* as Err: the parent never panics on it.
C13_FailuresReturnErr ==
    mode \in {"judge", "interact"} => ret /= "panic"


\* C14: in run_judge a failure of the checker sub-run (its spawn fails, its wait
\* fails, or it is killed by a signal) is returned as Ok(Some(..)) with verdict
\* SystemError, never as Err.
C14_CheckerFailureIsSystemError ==
    (ReturnedInParent /\ mode = "judge" /\ waits["user"] = 1
        /\ check_user_result(userRaw) = "None") =>
        /\ ret = "OkSome"
        /\ checkerRaw.signal /= "none" => result.verdict = "SystemError"

\* C15: the drivers return Ok(None) exactly when a spawn returned None, that is in
\* the forked child; in the parent they never do, and once a spawn has returned
\* None the driver has returned: it spawns, waits and pumps no more.
C15_NoneOnlyInChild ==
    /\ ret = "OkNone" <=> inChild
    /\ inChild => pc = "returned"

\* C15 witness: the interactor's spawn returned None after the contestant's spawn
\* had returned Some
C15_Witness ==
    /\ mode = "interact"
    /\ inChild
    /\ ret = "OkNone"
    /\ proc["user"] /= "unspawned"
    /\ proc["interactor"] = "unspawned"

\* C16: when the loop is about to exit on an exit-notifier event, no data event of
\* the same batch is left unvisited: all of them have been pumped.
C16_BatchDrainedBeforeExit ==
    (pc = "after_for" /\ exited) =>
        \A i \in 1..Len(events) : events[i] \notin ReadFds

\* a step of pump_proxy_pipe
PumpStep == PumpRead \/ PumpWritePeer \/ PumpWriteOutput

\* C17: every call of pump_proxy_pipe returns: inside it the proxy always has a
\* next step, so it reaches the read that reports EAGAIN and goes back to the loop.
C17_PumpReturns ==
    pc \in {"pump_read", "pump_write_peer", "pump_write_output"} => ENABLED PumpStep

\* C18: in a result returned after the checker has run, time, memory and
\* exit_status are the contestant's, as measured at its wait; verdict and
\* checker_exit_status are the checker's.
C18_ContestantFieldsKept ==
    (mode = "judge" /\ ret = "OkSome" /\ proc["checker"] = "exited") =>
        /\ result.time = get_run_time(userRaw)
        /\ result.memory = get_max_mem(userRaw)
        /\ result.exit_status = userRaw.exit_status
        /\ result.checker_exit_status = checkerRaw.exit_status
        /\ result.verdict = check_checker_result(checkerRaw)

\* C18 witness: the checker's run differs from the contestant's in every field
C18_Witness ==
    /\ mode = "judge"
    /\ ret = "OkSome"
    /\ proc["checker"] = "exited"
    /\ userRaw.time = 0 /\ checkerRaw.time = 2
    /\ userRaw.memory = 1 /\ checkerRaw.memory = 2
    /\ userRaw.exit_status = 0 /\ checkerRaw.exit_status = 1
    /\ result.verdict = "WrongAnswer"

\* the exit-notifier read end of a child
ExitFdOf(c) == IF c = "user" THEN "user_exit_read" ELSE "interactor_exit_read"

\* C19: once a child of run_interact is spawned, the four epoll registrations and
\* both exit notifiers (tag 41 for the contestant, 42 for the interactor) are in
\* place, so a child that has terminated shows as a readable registered notifier.
C19_RegisteredBeforeSpawn ==
    mode = "interact" =>
        /\ (\E c \in Children : proc[c] /= "unspawned") =>
              /\ ReadFds \cup ExitFds \subseteq epollSet
              /\ exitFd["user"] = 41
              /\ exitFd["interactor"] = 42
        /\ \A c \in Children : proc[c] = "exited" =>
              /\ ExitFdOf(c) \in epollSet
              /\ Readable(ExitFdOf(c))

\* C19 witness: the contestant has terminated before the interactor is spawned
C19_Witness ==
    /\ mode = "interact"
    /\ pc = "spawn_interactor"
    /\ proc["user"] = "exited"
    /\ Readable("user_exit_read")

\* s is a prefix of t
IsPrefix(s, t) == Len(s) <= Len(t) /\ s = SubSeq(t, 1, Len(s))

\* C20: run_process makes its calls in the order stack, address space, CPU, process
\* count and file size limits, then the redirections, then exec; it stops at the
\* first call that fails, and after a failed setrlimit it makes no dup2 and no exec.
C20_LimitsThenRedirectThenExec ==
    mode = "process" =>
        /\ IsPrefix(calls, <<"RLIMIT_STACK", "RLIMIT_AS", "RLIMIT_CPU", "RLIMIT_NPROC",
                             "RLIMIT_FSIZE", "open_input", "open_output", "dup2_stdin",
                             "dup2_stdout", "execve">>)
        /\ failedCall /= "" =>
              /\ pc = "returned"
              /\ calls[Len(calls)] = failedCall
        /\ failedCall \in {"RLIMIT_STACK", "RLIMIT_AS", "RLIMIT_CPU", "RLIMIT_NPROC",
                           "RLIMIT_FSIZE"} =>
              \A i \in 1..Len(calls) : calls[i] \notin {"dup2_stdin", "dup2_stdout", "execve"}

\* C20 witness: the CPU limit failed after the stack and address-space limits
C20_Witness ==
    /\ mode = "process"
    /\ failedCall = "RLIMIT_CPU"
    /\ calls = <<"RLIMIT_STACK", "RLIMIT_AS", "RLIMIT_CPU">>


====
